---- MODULE Spec2Model ----
(***************************************************************************)
(* A model of bettertimedelta.TimeDelta: the canonical decomposition made  *)
(* by the constructor, the conversions to and from datetime.timedelta, the *)
(* comparisons and the arithmetic operators.                               *)
(*                                                                         *)
(* Python's int and Decimal are arbitrary precision and WEEK alone is      *)
(* 604800000000 microseconds, so integers are carried as limb sequences    *)
(* (Nat.., Z..), Decimal and float values as exact dyadic rationals (D..), *)
(* and a float operation as the exact result rounded to a 53-bit           *)
(* significand (Round53).  Every value the model reaches is far below the  *)
(* 28 significant digits of the default Decimal context, so the Decimal    *)
(* sums and products of __init__ are exact there and its rounded quotients *)
(* have the integral parts of the exact ones, as the model has them.       *)
(***************************************************************************)
EXTENDS Integers, Sequences, FiniteSets, TLC

(***************************************************************************)
(* Natural numbers of any size: little-endian sequences of limbs in        *)
(* 0..Base-1 with no high zero limb; zero is the empty sequence.  Carries  *)
(* are looked ahead rather than rippled, and the digits of a quotient are  *)
(* estimated from the leading limbs, so that no chain of evaluation is     *)
(* longer than the numbers are.                                            *)
(***************************************************************************)
Base == 1000

\* The one member of a set of one.  (A value that enters a long calculation
\* is bound as the member of a set of one: it is then worked out before the
\* calculation is begun, not in the midst of it.)
Only(S) == CHOOSE x \in S : TRUE

\* F(x) and F(x, y), the arguments worked out before F is entered.
Call(F(_), x) == Only({F(v) : v \in {x}})

Call2(F(_, _), x, y) == Only({F(v, w) : v \in {x}, w \in {y}})

Max(i, j) == IF i > j THEN i ELSE j

Min(i, j) == IF i < j THEN i ELSE j

\* Limb i of a, zero beyond its length.
Digit(a, i) == IF i \in DOMAIN a THEN a[i] ELSE 0

\* The index of the highest limb of a that is not zero, 0 if there is none.
Top(a) ==
    IF \A i \in DOMAIN a : a[i] = 0 THEN 0
    ELSE CHOOSE i \in DOMAIN a :
            a[i] # 0 /\ \A j \in DOMAIN a : j > i => a[j] = 0

Trim(a) == SubSeq(a, 1, Top(a))

Cons(d, s) == IF d = 0 /\ s = << >> THEN << >> ELSE <<d>> \o s

Shift(a) == IF a = << >> THEN a ELSE <<0>> \o a

RECURSIVE NatOfInt(_)
NatOfInt(i) == IF i = 0 THEN << >> ELSE <<i % Base>> \o NatOfInt(i \div Base)

RECURSIVE NatToInt(_)
NatToInt(a) == IF a = << >> THEN 0 ELSE Head(a) + Base * NatToInt(Tail(a))

\* The carry into limb i of a + b comes from a limb below whose sum
\* overflows, with only sums of Base - 1 between.
Carry(a, b, i) ==
    IF \E j \in 1 .. i - 1 :
          /\ Digit(a, j) + Digit(b, j) >= Base
          /\ \A k \in j + 1 .. i - 1 : Digit(a, k) + Digit(b, k) = Base - 1
    THEN 1 ELSE 0

NatAdd(a, b) ==
    IF b = << >> THEN Trim(a)
    ELSE Trim([i \in 1 .. Max(Len(a), Len(b)) + 1 |->
            (Digit(a, i) + Digit(b, i) + Carry(a, b, i)) % Base])

\* The borrow from limb i of a - b goes to a limb below whose difference is
\* negative, with only differences of 0 between.
Borrow(a, b, i) ==
    IF \E j \in 1 .. i - 1 :
          /\ a[j] < Digit(b, j)
          /\ \A k \in j + 1 .. i - 1 : a[k] = Digit(b, k)
    THEN 1 ELSE 0

\* a - b for a >= b
NatSub(a, b) ==
    IF b = << >> THEN a
    ELSE Trim([i \in 1 .. Len(a) |-> (a[i] - Digit(b, i) - Borrow(a, b, i)) % Base])

\* -1, 0 or 1 as a < b, a = b, a > b.
NatCmp(a, b) ==
    IF Len(a) < Len(b) THEN -1
    ELSE IF Len(a) > Len(b) THEN 1
    ELSE IF a = b THEN 0
    ELSE IF (LET i == Top([j \in 1 .. Len(a) |-> IF a[j] = b[j] THEN 0 ELSE 1])
             IN  a[i] < b[i])
    THEN -1 ELSE 1

\* a * k for a limb k
NatMulLimb(a, k) ==
    NatAdd([i \in 1 .. Len(a) |-> (a[i] * k) % Base],
           Shift([i \in 1 .. Len(a) |-> (a[i] * k) \div Base]))

\* The sum of a[i] * b[k + 1 - i] for i in lo..hi: column k of the product.
RECURSIVE Column(_, _, _, _, _)
Column(a, b, k, lo, hi) ==
    IF lo > hi THEN 0
    ELSE IF lo = hi THEN a[lo] * Digit(b, k + 1 - lo)
    ELSE Column(a, b, k, lo, (lo + hi) \div 2)
         + Column(a, b, k, (lo + hi) \div 2 + 1, hi)

\* c is the sequence of columns, each less than Base^3.
Columns(c) ==
    NatAdd(NatAdd([k \in DOMAIN c |-> c[k] % Base],
                  Shift([k \in DOMAIN c |-> (c[k] \div Base) % Base])),
           Shift(Shift([k \in DOMAIN c |-> c[k] \div (Base * Base)])))

NatMul(a, b) ==
    Columns([k \in 1 .. Len(a) + Len(b) - 1 |->
                Column(a, b, k, Max(1, k + 1 - Len(b)), Min(k, Len(a)))])

\* The limb d with d * b <= r < (d + 1) * b, for r < Base * b: it lies
\* between the quotients of the three leading limbs of r by the two leading
\* limbs of b and by those plus one.
RECURSIVE Leading(_, _, _)
Leading(r, n, count) ==
    IF count = 0 THEN 0 ELSE Digit(r, n) + Base * Leading(r, n + 1, count - 1)

NatQuotLimb(r, b) ==
    IF Len(b) = 1 THEN (Digit(r, 1) + Base * Digit(r, 2)) \div b[1]
    ELSE CHOOSE d \in Leading(r, Len(b) - 1, 3) \div (Leading(b, Len(b) - 1, 2) + 1)
                      .. Min(Base - 1, (Leading(r, Len(b) - 1, 3) + 1)
                                       \div Leading(b, Len(b) - 1, 2)) :
            /\ NatCmp(NatMulLimb(b, d), r) <= 0
            /\ NatCmp(NatMulLimb(b, d + 1), r) > 0

\* One step of the long division: r is the running remainder with the next
\* limb brought down, q the quotient so far, d the new quotient limb.
NatDivLimb(r, q, b, d) == <<Cons(d, q), NatSub(r, NatMulLimb(b, d))>>

\* <<quotient, remainder>> of a by b > 0 with the limbs of a from the i-th
\* up: long division, high limb first.
RECURSIVE NatDivFrom(_, _, _)
RECURSIVE NatDivStep(_, _, _)
NatDivFrom(a, b, i) ==
    IF i > Len(a) - Len(b) + 1 THEN << << >>, SubSeq(a, i, Len(a)) >>
    ELSE NatDivStep(a[i], NatDivFrom(a, b, i + 1), b)

NatDivStep(lo, h, b) ==
    IF h[2] = << >> /\ lo = 0 THEN <<Cons(0, h[1]), << >> >>
    ELSE NatDivLimb(Cons(lo, h[2]), h[1], b, NatQuotLimb(Cons(lo, h[2]), b))

\* <<quotient, remainder>> of a by b > 0
NatDivMod(a, b) ==
    IF NatCmp(a, b) < 0 THEN << << >>, a >> ELSE NatDivFrom(a, b, 1)

\* 2^k
RECURSIVE NatPow2(_)
NatPow2(k) ==
    IF k < 30 THEN NatOfInt(2^k)
    ELSE NatMul(NatPow2(k \div 2), NatPow2(k - k \div 2))

\* The number of bits of a: the L with 2^(L-1) <= a < 2^L, 0 for a = 0.  It
\* is within two of what the length of a and its leading limb give.
NatBitsNear(a, L0) ==
    CHOOSE L \in Max(1, L0 - 2) .. L0 + 2 :
        NatCmp(a, NatPow2(L - 1)) >= 0 /\ NatCmp(a, NatPow2(L)) < 0

NatBits(a) ==
    IF a = << >> THEN 0
    ELSE NatBitsNear(a, ((Len(a) - 1) * 9966) \div 1000
                         + (CHOOSE j \in 1 .. 10 : 2^(j-1) <= a[Len(a)]
                                                   /\ a[Len(a)] < 2^j))

NatIsEven(a) == Digit(a, 1) % 2 = 0

(***************************************************************************)
(* Integers of any size (Python's int): a sign and a magnitude.  Zero is   *)
(* never negative.                                                         *)
(***************************************************************************)
ZMake(neg, mag) == [neg |-> neg /\ mag # << >>, mag |-> mag]

ZOfInt(i) == IF i < 0 THEN ZMake(TRUE, NatOfInt(-i)) ELSE ZMake(FALSE, NatOfInt(i))

ZToInt(a) == IF a.neg THEN -NatToInt(a.mag) ELSE NatToInt(a.mag)

Zero == ZOfInt(0)

ZNeg(a) == ZMake(~a.neg, a.mag)

ZAbs(a) == ZMake(FALSE, a.mag)

ZAdd(a, b) ==
    IF a.neg = b.neg THEN ZMake(a.neg, NatAdd(a.mag, b.mag))
    ELSE IF NatCmp(a.mag, b.mag) >= 0 THEN ZMake(a.neg, NatSub(a.mag, b.mag))
    ELSE ZMake(b.neg, NatSub(b.mag, a.mag))

ZSub(a, b) == ZAdd(a, ZNeg(b))

ZMul(a, b) == ZMake(a.neg # b.neg, NatMul(a.mag, b.mag))

\* -1, 0 or 1 as a < b, a = b, a > b.
ZCmp(a, b) ==
    IF a.neg # b.neg THEN (IF a.neg THEN -1 ELSE 1)
    ELSE IF a.neg THEN NatCmp(b.mag, a.mag)
    ELSE NatCmp(a.mag, b.mag)

ZIsZero(a) == a.mag = << >>

(***************************************************************************)
(* The quotient p / q of an integer p by a natural q > 0, made an integer  *)
(* the way Decimal.to_integral_value(mode) rounds: h is <<quotient,        *)
(* remainder>> of the magnitudes.                                          *)
(***************************************************************************)
RoundsUp(p, q, mode, h) ==
    CASE mode = "ROUND_DOWN" -> FALSE
      [] mode = "ROUND_FLOOR" -> p.neg /\ h[2] # << >>
      [] mode = "ROUND_CEILING" -> ~p.neg /\ h[2] # << >>
      [] mode = "ROUND_HALF_EVEN" ->
            \/ NatCmp(NatAdd(h[2], h[2]), q) > 0
            \/ (NatAdd(h[2], h[2]) = q /\ ~NatIsEven(h[1]))

RatRound(p, q, mode, h) ==
    ZMake(p.neg, IF RoundsUp(p, q, mode, h) THEN NatAdd(h[1], <<1>>) ELSE h[1])

RatToIntegral(p, q, mode) ==
    Only({RatRound(p, q, mode, h) : h \in {Call2(NatDivMod, p.mag, q)}})

\* A fault: the quotient rounded toward zero.
ZTruncDiv(a, b) ==
    RatToIntegral(ZMake(a.neg # b.neg, a.mag), b.mag, "ROUND_DOWN")

\* Python's int // int and int % int: the quotient rounded toward negative
\* infinity, and the remainder that goes with it (b # 0).
ZFloorDiv(a, b) ==
    RatToIntegral(ZMake(a.neg # b.neg, a.mag), b.mag, "ROUND_FLOOR")

ZMod(a, b) == ZSub(a, ZMul(ZFloorDiv(a, b), b))

(***************************************************************************)
(* Exact values of Decimal and of float: dyadic rationals n / 2^k.  DNorm  *)
(* brings one to lowest terms (k = 0 or n odd), the form of the floats the *)
(* state holds.                                                            *)
(***************************************************************************)
RECURSIVE DNormBy(_, _, _)
DNormBy(n, k, step) ==
    IF step = 0 \/ k = 0 THEN [n |-> n, k |-> k]
    ELSE IF k >= step /\ NatDivMod(n.mag, NatPow2(step))[2] = << >>
    THEN DNormBy(ZMake(n.neg, NatDivMod(n.mag, NatPow2(step))[1]), k - step, step)
    ELSE DNormBy(n, k, step \div 2)

DNorm(n, k) == IF n.mag = << >> THEN [n |-> n, k |-> 0] ELSE DNormBy(n, k, 64)

DOfZ(z) == [n |-> z, k |-> 0]

\* The value i / 2^k of small integers i and k.
DOfInt(i, k) == DNorm(ZOfInt(i), k)

D0 == DOfZ(Zero)

\* The numerator of x over 2^k, k >= x.k.
DScaled(x, k) == ZMul(x.n, ZMake(FALSE, NatPow2(k - x.k)))

DAdd(x, y) ==
    IF x.k >= y.k THEN [n |-> ZAdd(x.n, DScaled(y, x.k)), k |-> x.k]
    ELSE [n |-> ZAdd(DScaled(x, y.k), y.n), k |-> y.k]

DNeg(x) == [n |-> ZNeg(x.n), k |-> x.k]

DSub(x, y) == DAdd(x, DNeg(y))

DAbs(x) == [n |-> ZAbs(x.n), k |-> x.k]

DMulZ(x, z) == [n |-> ZMul(x.n, z), k |-> x.k]

DIsNeg(x) == x.n.neg

\* (x / unit).to_integral_value(mode) for an integer unit > 0.
DQuotToIntegral(x, unit, mode) ==
    RatToIntegral(x.n, NatMul(unit.mag, NatPow2(x.k)), mode)

\* x.to_integral_value(mode)
DToIntegral(x, mode) == RatToIntegral(x.n, NatPow2(x.k), mode)

(***************************************************************************)
(* IEEE-754 binary64 arithmetic: the exact result p / q rounded to a       *)
(* significand of 53 bits, ties to even.  (The exponent range of binary64  *)
(* is not reached by the values of the model.)                             *)
(***************************************************************************)

\* |p| / q = Num / Den * 2^e
Num(p, e) == IF e >= 0 THEN p.mag ELSE NatMul(p.mag, NatPow2(-e))

Den(q, e) == IF e >= 0 THEN NatMul(q, NatPow2(e)) ELSE q

\* m * 2^e
Significand(m, e) ==
    IF e >= 0 THEN DOfZ(ZMul(m, ZMake(FALSE, NatPow2(e)))) ELSE DNorm(m, -e)

\* e is the exponent with 2^52 <= |p| / q / 2^e < 2^53.
Round53Exp(p, q, e) ==
    Significand(RatToIntegral(ZMake(p.neg, Num(p, e)), Den(q, e),
                              "ROUND_HALF_EVEN"), e)

\* 2^52 < |p| / q / 2^e1 < 2^54
Round53At(p, q, e1) ==
    IF NatCmp(Num(p, e1), NatMul(Den(q, e1), NatPow2(53))) >= 0
    THEN Round53Exp(p, q, e1 + 1)
    ELSE Round53Exp(p, q, e1)

Round53(p, q) ==
    IF p.mag = << >> THEN D0
    ELSE Only({Round53At(p, q, e1) : e1 \in {NatBits(p.mag) - NatBits(q) - 53}})

\* float(i) for an int i
FloatOfInt(i) == Call2(Round53, i, <<1>>)

\* x * y and x / y for floats x, y (y # 0)
FloatMul(x, y) == Call2(Round53, ZMul(x.n, y.n), NatPow2(x.k + y.k))

FloatDiv(x, y) ==
    Call2(Round53, ZMake(x.n.neg # y.n.neg, NatMul(x.n.mag, NatPow2(y.k))),
          NatMul(y.n.mag, NatPow2(x.k)))

(***************************************************************************)
(* constants.py: all units in microseconds.                                *)
(***************************************************************************)
MICROSECOND == ZOfInt(1)
MILLISECOND == ZMul(ZOfInt(1000), MICROSECOND)
SECOND == ZMul(ZOfInt(1000), MILLISECOND)
MINUTE == ZMul(ZOfInt(60), SECOND)
HOUR == ZMul(ZOfInt(60), MINUTE)
DAY == ZMul(ZOfInt(24), HOUR)
WEEK == ZMul(ZOfInt(7), DAY)

(***************************************************************************)
(* TimeDelta.__init__: the seven inputs are exact values (int or float,    *)
(* through Decimal); the result is the record of the eight attributes.     *)
(***************************************************************************)

\* Lines 81-87: the total, Decimal(microseconds) to which the other inputs
\* are added in the order of the code, each times its unit.
RECURSIVE SumOf(_, _)
SumOf(total, terms) ==
    IF terms = << >> THEN total
    ELSE Only({SumOf(t, Tail(terms)) :
                 t \in {DAdd(total, DMulZ(Head(terms)[1], Head(terms)[2]))}})

TotalOf(weeks, days, hours, minutes, seconds, milliseconds, microseconds) ==
    SumOf(microseconds,
          << <<milliseconds, MILLISECOND>>, <<seconds, SECOND>>,
             <<minutes, MINUTE>>, <<hours, HOUR>>, <<days, DAY>>,
             <<weeks, WEEK>> >>)

\* A fault: the weeks of a negative total counted down, not up.
NegativeWeeksFloor(total) == DQuotToIntegral(DAbs(total), WEEK, "ROUND_FLOOR")

\* Lines 105-106: ceil(|total| / WEEK)
NegativeWeeks(total) == DQuotToIntegral(DAbs(total), WEEK, "ROUND_CEILING")

\* Lines 89-107: what is left to decompose.
Remaining(total) ==
    IF DIsNeg(total)
    THEN DSub(DOfZ(ZMul(NegativeWeeks(total), WEEK)), DAbs(total))
    ELSE total

\* Lines 109-125: the units taken out, largest first, and how the count of
\* each is made an integer.
Units ==
    << [unit |-> WEEK, rounding |-> "ROUND_DOWN"],
       [unit |-> DAY, rounding |-> "ROUND_FLOOR"],
       [unit |-> HOUR, rounding |-> "ROUND_FLOOR"],
       [unit |-> MINUTE, rounding |-> "ROUND_FLOOR"],
       [unit |-> SECOND, rounding |-> "ROUND_FLOOR"],
       [unit |-> MILLISECOND, rounding |-> "ROUND_FLOOR"] >>

\* Lines 109-127: <<weeks, days, hours, minutes, seconds, milliseconds,
\* microseconds>> of what remains: count the unit, subtract that many,
\* go on with the next; what is left at the end is rounded half-even.
RECURSIVE Decompose(_, _)
RECURSIVE TakeUnit(_, _, _)
Decompose(remaining, units) ==
    IF units = << >> THEN <<DToIntegral(remaining, "ROUND_HALF_EVEN")>>
    ELSE TakeUnit(remaining, units,
                  DQuotToIntegral(remaining, Head(units).unit,
                                  Head(units).rounding))

TakeUnit(remaining, units, count) ==
    <<count>> \o Decompose(DSub(remaining, DOfZ(ZMul(count, Head(units).unit))),
                           Tail(units))

\* A fault: the total cut off rather than rounded.
TotalMicrosecondsFloor(total) == DToIntegral(total, "ROUND_FLOOR")

\* Line 144
TotalMicroseconds(total) == DToIntegral(total, "ROUND_HALF_EVEN")

\* Lines 129-144: the attributes, from the total and the decomposition c of
\* what remained.  (The assert of line 133, c[1] = 0 in the negative branch,
\* holds of every total the model reaches.)
Attributes(total, c) ==
    [weeks        |-> ZToInt(IF DIsNeg(total)
                             THEN ZNeg(NegativeWeeks(total)) ELSE c[1]),
     days         |-> ZToInt(c[2]),
     hours        |-> ZToInt(c[3]),
     minutes      |-> ZToInt(c[4]),
     seconds      |-> ZToInt(c[5]),
     milliseconds |-> ZToInt(c[6]),
     microseconds |-> ZToInt(c[7]),
     total_microseconds |-> TotalMicroseconds(total)]

Canonical(total) == Attributes(total, Decompose(Remaining(total), Units))

\* The total is worked out before it is taken apart.
TimeDelta(weeks, days, hours, minutes, seconds, milliseconds, microseconds) ==
    Call(Canonical, TotalOf(weeks, days, hours, minutes, seconds,
                            milliseconds, microseconds))

\* TimeDelta(microseconds=x)
FromMicroseconds(microseconds) ==
    TimeDelta(D0, D0, D0, D0, D0, D0, microseconds)

OfMicroseconds(x) == Call(FromMicroseconds, x)

(***************************************************************************)
(* Python values: the operands and the results of the operations.          *)
(***************************************************************************)
TD(td) == [type |-> "TimeDelta", td |-> td]
Native(d, s, us) ==
    [type |-> "timedelta", days |-> d, seconds |-> s, microseconds |-> us]
Datetime(at) == [type |-> "datetime", at |-> at]
PyInt(z) == [type |-> "int", v |-> z]
PyFloat(x) == [type |-> "float", v |-> x]
PyBool(b) == [type |-> "bool", v |-> b]
PyStr == [type |-> "str"]
PyTuple(x, y) == [type |-> "tuple", fst |-> x, snd |-> y]
None == [type |-> "None"]
NotImplemented == [type |-> "NotImplemented"]
Raise(exc) == [type |-> "raise", exc |-> exc]

IsNumber(x) == x.type \in {"int", "float"}

(***************************************************************************)
(* utils.py and datetime.timedelta                                         *)
(***************************************************************************)
\* A fault: the days of the timedelta left out.
SecondsToMicroseconds(td) ==
    ZAdd(ZMul(ZOfInt(td.seconds), SECOND), ZMul(ZOfInt(td.microseconds), MICROSECOND))

timedelta_to_microseconds(td) ==
    LET m0 == ZMul(ZOfInt(td.days), DAY)
        m1 == ZAdd(m0, ZMul(ZOfInt(td.seconds), SECOND))
    IN  ZAdd(m1, ZMul(ZOfInt(td.microseconds), MICROSECOND))

MaxNativeDays == 999999999

\* datetime.timedelta(microseconds=us): the triple normalised by divmod, or
\* OverflowError outside the range of days.
Normalised(days, rest) ==
    IF NatCmp(days.mag, NatOfInt(MaxNativeDays)) > 0
    THEN Raise("OverflowError")
    ELSE Native(ZToInt(days), ZToInt(ZFloorDiv(rest, SECOND)),
                ZToInt(ZMod(rest, SECOND)))

timedelta(us) == Normalised(ZFloorDiv(us, DAY), ZMod(us, DAY))

from_timedelta(td) == OfMicroseconds(DOfZ(timedelta_to_microseconds(td)))

as_timedelta(self) == timedelta(self.total_microseconds)

(***************************************************************************)
(* Python's arithmetic of an int with a number: exact with an int, in      *)
(* binary64 with a float (the int converted first), except int / int,      *)
(* which is the exact quotient rounded once.                               *)
(***************************************************************************)
PyMul(i, n) ==
    IF n.type = "int" THEN DOfZ(ZMul(i, n.v)) ELSE FloatMul(FloatOfInt(i), n.v)

PyTrueDiv(i, n) ==
    IF n.type = "int" THEN Call2(Round53, ZMake(i.neg # n.v.neg, i.mag), n.v.mag)
    ELSE FloatDiv(FloatOfInt(i), n.v)

\* float // float: the floor of the quotient, as a float.
FloatFloorDiv(x, y) ==
    FloatOfInt(RatToIntegral(
        ZMake(x.n.neg # y.n.neg, NatMul(x.n.mag, NatPow2(y.k))),
        NatMul(y.n.mag, NatPow2(x.k)), "ROUND_FLOOR"))

PyFloorDiv(i, n) ==
    IF n.type = "int" THEN DOfZ(ZFloorDiv(i, n.v))
    ELSE FloatFloorDiv(FloatOfInt(i), n.v)

IsZeroNumber(n) == IF n.type = "int" THEN ZIsZero(n.v) ELSE ZIsZero(n.v.n)

(***************************************************************************)
(* The comparisons, lines 345-385.                                         *)
(***************************************************************************)
__lt__(self, other) ==
    IF other.type = "TimeDelta"
    THEN PyBool(ZCmp(self.total_microseconds, other.td.total_microseconds) < 0)
    ELSE IF other.type = "timedelta"
    THEN PyBool(ZCmp(self.total_microseconds, timedelta_to_microseconds(other)) < 0)
    ELSE NotImplemented

\* A fault: <= written as <.
LeStrict(self, other) == __lt__(self, other)

__le__(self, other) ==
    IF other.type = "TimeDelta"
    THEN PyBool(ZCmp(self.total_microseconds, other.td.total_microseconds) <= 0)
    ELSE IF other.type = "timedelta"
    THEN PyBool(ZCmp(self.total_microseconds, timedelta_to_microseconds(other)) <= 0)
    ELSE NotImplemented

__eq__(self, other) ==
    IF other.type = "TimeDelta"
    THEN PyBool(ZCmp(self.total_microseconds, other.td.total_microseconds) = 0)
    ELSE IF other.type = "timedelta"
    THEN PyBool(ZCmp(self.total_microseconds, timedelta_to_microseconds(other)) = 0)
    ELSE NotImplemented

__ne__(self, other) ==
    IF other.type = "TimeDelta"
    THEN PyBool(ZCmp(self.total_microseconds, other.td.total_microseconds) # 0)
    ELSE IF other.type = "timedelta"
    THEN PyBool(ZCmp(self.total_microseconds, timedelta_to_microseconds(other)) # 0)
    ELSE NotImplemented

__gt__(self, other) ==
    IF other.type = "TimeDelta"
    THEN PyBool(ZCmp(self.total_microseconds, other.td.total_microseconds) > 0)
    ELSE IF other.type = "timedelta"
    THEN PyBool(ZCmp(self.total_microseconds, timedelta_to_microseconds(other)) > 0)
    ELSE NotImplemented

__ge__(self, other) ==
    IF other.type = "TimeDelta"
    THEN PyBool(ZCmp(self.total_microseconds, other.td.total_microseconds) >= 0)
    ELSE IF other.type = "timedelta"
    THEN PyBool(ZCmp(self.total_microseconds, timedelta_to_microseconds(other)) >= 0)
    ELSE NotImplemented

(***************************************************************************)
(* The arithmetic, lines 387-476.  A datetime is the point at microseconds *)
(* from an epoch; adding a native timedelta to it adds the microseconds.   *)
(***************************************************************************)
\* datetime + timedelta (sign 1) and datetime - timedelta (sign -1); the
\* conversion of self to a timedelta may have raised.
AtDatetime(n, dt, sign) ==
    IF n.type = "raise" THEN n
    ELSE Datetime(ZAdd(dt.at, ZMul(ZOfInt(sign), timedelta_to_microseconds(n))))

__neg__(self) == TD(OfMicroseconds(DOfZ(ZMul(self.total_microseconds, ZOfInt(-1)))))

__pos__(self) == TD(OfMicroseconds(DOfZ(self.total_microseconds)))

\* A fault: abs(self) never negating.
AbsUnsigned(self) == __pos__(self)

__abs__(self) ==
    IF self.total_microseconds.neg THEN __neg__(self) ELSE __pos__(self)

__bool__(self) == PyBool(~ZIsZero(self.total_microseconds))

__add__(self, other) ==
    IF other.type = "TimeDelta"
    THEN TD(OfMicroseconds(DOfZ(ZAdd(self.total_microseconds,
                                     other.td.total_microseconds))))
    ELSE IF other.type = "timedelta"
    THEN TD(OfMicroseconds(DOfZ(ZAdd(self.total_microseconds,
                                     timedelta_to_microseconds(other)))))
    ELSE IF other.type = "datetime"
    THEN AtDatetime(as_timedelta(self), other, 1)
    ELSE NotImplemented

__radd__(self, other) ==
    IF other.type = "timedelta"
    THEN TD(OfMicroseconds(DOfZ(ZAdd(timedelta_to_microseconds(other),
                                     self.total_microseconds))))
    ELSE IF other.type = "datetime"
    THEN AtDatetime(as_timedelta(self), other, 1)
    ELSE NotImplemented

__sub__(self, other) ==
    IF other.type = "TimeDelta"
    THEN TD(OfMicroseconds(DOfZ(ZSub(self.total_microseconds,
                                     other.td.total_microseconds))))
    ELSE IF other.type = "timedelta"
    THEN TD(OfMicroseconds(DOfZ(ZSub(self.total_microseconds,
                                     timedelta_to_microseconds(other)))))
    ELSE NotImplemented

\* A fault: the operands of the reflected subtraction not swapped.
SubUnreflected(self, other) == __sub__(self, other)

__rsub__(self, other) ==
    IF other.type = "TimeDelta"
    THEN TD(OfMicroseconds(DOfZ(ZSub(other.td.total_microseconds,
                                     self.total_microseconds))))
    ELSE IF other.type = "timedelta"
    THEN TD(OfMicroseconds(DOfZ(ZSub(timedelta_to_microseconds(other),
                                     self.total_microseconds))))
    ELSE IF other.type = "datetime"
    THEN AtDatetime(as_timedelta(self), other, -1)
    ELSE NotImplemented

__mul__(self, other) ==
    IF IsNumber(other)
    THEN TD(OfMicroseconds(PyMul(self.total_microseconds, other)))
    ELSE NotImplemented

__rmul__(self, other) ==
    IF IsNumber(other)
    THEN TD(OfMicroseconds(PyMul(self.total_microseconds, other)))
    ELSE NotImplemented

\* A fault: / dividing as // does.
TrueDivFloored(self, other) ==
    IF IsNumber(other) /\ ~IsZeroNumber(other)
    THEN TD(OfMicroseconds(PyFloorDiv(self.total_microseconds, other)))
    ELSE NotImplemented

__truediv__(self, other) ==
    IF other.type = "TimeDelta"
    THEN IF ZIsZero(other.td.total_microseconds) THEN Raise("ZeroDivisionError")
         ELSE PyFloat(PyTrueDiv(self.total_microseconds,
                              PyInt(other.td.total_microseconds)))
    ELSE IF other.type = "timedelta"
    THEN IF ZIsZero(timedelta_to_microseconds(other)) THEN Raise("ZeroDivisionError")
         ELSE PyFloat(PyTrueDiv(self.total_microseconds,
                              PyInt(timedelta_to_microseconds(other))))
    ELSE IF IsNumber(other)
    THEN IF IsZeroNumber(other) THEN Raise("ZeroDivisionError")
         ELSE TD(OfMicroseconds(PyTrueDiv(self.total_microseconds, other)))
    ELSE NotImplemented

__floordiv__(self, other) ==
    IF other.type = "TimeDelta"
    THEN IF ZIsZero(other.td.total_microseconds) THEN Raise("ZeroDivisionError")
         ELSE PyInt(ZFloorDiv(self.total_microseconds, other.td.total_microseconds))
    ELSE IF IsNumber(other)
    THEN IF IsZeroNumber(other) THEN Raise("ZeroDivisionError")
         ELSE TD(OfMicroseconds(PyFloorDiv(self.total_microseconds, other)))
    ELSE NotImplemented

\* A fault: the remainder taken by a number as well.
ModByNumber(self, other) ==
    IF IsNumber(other)
    THEN IF IsZeroNumber(other) THEN Raise("ZeroDivisionError") ELSE TD(self)
    ELSE IF other.type = "TimeDelta" THEN TD(self)
    ELSE IF other.type = "timedelta"
    THEN IF ZIsZero(timedelta_to_microseconds(other)) THEN Raise("ZeroDivisionError")
         ELSE TD(OfMicroseconds(DOfZ(ZMod(self.total_microseconds,
                                          timedelta_to_microseconds(other)))))
    ELSE NotImplemented

__mod__(self, other) ==
    IF other.type = "TimeDelta"
    THEN IF ZIsZero(other.td.total_microseconds) THEN Raise("ZeroDivisionError")
         ELSE TD(OfMicroseconds(DOfZ(ZMod(self.total_microseconds,
                                          other.td.total_microseconds))))
    ELSE IF other.type = "timedelta"
    THEN IF ZIsZero(timedelta_to_microseconds(other)) THEN Raise("ZeroDivisionError")
         ELSE TD(OfMicroseconds(DOfZ(ZMod(self.total_microseconds,
                                          timedelta_to_microseconds(other)))))
    ELSE NotImplemented

\* The operators // and % of line 476: a method's NotImplemented, which no
\* reflected method of the operand takes up, ends in TypeError.
Operator(r) == IF r = NotImplemented THEN Raise("TypeError") ELSE r

PairOf(q, r) ==
    IF q.type = "raise" THEN q ELSE IF r.type = "raise" THEN r ELSE PyTuple(q, r)

__divmod__(self, other) ==
    PairOf(Operator(__floordiv__(self, other)), Operator(__mod__(self, other)))

(***************************************************************************)
(* Formatting, lines 218-296.  A str is the sequence of its characters.    *)
(***************************************************************************)
PyText(chars) == [type |-> "str", chars |-> chars]

\* The characters of the model that \w of line 25 does not match.
NonWord == {"%", " ", ",", ":", ".", "-", "+"}

IsWord(c) == c \notin NonWord

\* str.lower() of line 267, on the letters of the keys.
LowerOf(c) ==
    CASE c = "W" -> "w" [] c = "D" -> "d" [] c = "H" -> "h" [] c = "M" -> "m"
      [] c = "S" -> "s" [] c = "U" -> "u" [] OTHER -> c

Lower(chars) == [i \in 1 .. Len(chars) |-> LowerOf(chars[i])]

__ordered_attributes ==
    <<"weeks", "days", "hours", "minutes", "seconds", "milliseconds",
      "microseconds">>

_format_keys == << <<"w">>, <<"d">>, <<"h">>, <<"m">>, <<"s">>, <<"m", "s">>, <<"u", "s">> >>

\* _format_attr_map[key]: the attribute zipped with the key, or KeyError.
_format_attr_map(key) ==
    IF \E i \in 1 .. 7 : _format_keys[i] = key
    THEN __ordered_attributes[CHOOSE i \in 1 .. 7 : _format_keys[i] = key]
    ELSE "KeyError"

DecimalChars == <<"0", "1", "2", "3", "4", "5", "6", "7", "8", "9">>

\* The decimal digits of n >= 0.
RECURSIVE DecimalDigits(_)
DecimalDigits(n) ==
    IF n < 10 THEN <<DecimalChars[n + 1]>>
    ELSE Append(DecimalDigits(n \div 10), DecimalChars[(n % 10) + 1])

\* str(number)
Str(number) ==
    IF number < 0 THEN <<"-">> \o DecimalDigits(-number) ELSE DecimalDigits(number)

\* '{:0<width>d}'.format(number): zeros between the sign and the digits.
ZeroPadded(number, width) ==
    IF number < 0
    THEN <<"-">> \o [i \in 1 .. width - 1 - Len(DecimalDigits(-number)) |-> "0"]
                 \o DecimalDigits(-number)
    ELSE [i \in 1 .. width - Len(DecimalDigits(number)) |-> "0"]
         \o DecimalDigits(number)

_replace_format_keys(self, spec_key) ==
    IF _format_attr_map(Lower(spec_key)) = "KeyError" THEN Raise("ValueError")
    ELSE IF spec_key \in {<<"H">>, <<"M">>, <<"S">>}
    THEN PyText(ZeroPadded(self[_format_attr_map(Lower(spec_key))], 2))
    ELSE IF spec_key \in {<<"m", "S">>, <<"u", "S">>}
    THEN PyText(ZeroPadded(self[_format_attr_map(Lower(spec_key))], 3))
    ELSE PyText(Str(self[_format_attr_map(Lower(spec_key))]))

\* Line 25, \w+ from chars[i] on: the last of the word characters it takes.
RECURSIVE KeyEnd(_, _)
KeyEnd(chars, i) ==
    IF i < Len(chars) /\ IsWord(chars[i + 1]) THEN KeyEnd(chars, i + 1) ELSE i

\* Lines 21-27: (?<!%)%(\w+) matches at chars[i].
MatchesAt(chars, i) ==
    /\ chars[i] = "%"
    /\ i = 1 \/ chars[i - 1] # "%"
    /\ i < Len(chars)
    /\ IsWord(chars[i + 1])

\* Line 257, _format_regex.sub(repl, format_spec) from chars[i] on.
RECURSIVE RegexSub(_, _, _)
RegexSub(self, chars, i) ==
    IF i > Len(chars) THEN PyText(<< >>)
    ELSE IF MatchesAt(chars, i)
    THEN LET numstr == _replace_format_keys(self, SubSeq(chars, i + 1, KeyEnd(chars, i + 1)))
             rest == RegexSub(self, chars, KeyEnd(chars, i + 1) + 1)
         IN  IF numstr.type = "raise" THEN numstr
             ELSE IF rest.type = "raise" THEN rest
             ELSE PyText(numstr.chars \o rest.chars)
    ELSE LET rest == RegexSub(self, chars, i + 1)
         IN  IF rest.type = "raise" THEN rest
             ELSE PyText(<<chars[i]>> \o rest.chars)

\* Line 258, str.replace('%%', '%') from chars[i] on.
RECURSIVE ReplacePercents(_, _)
ReplacePercents(chars, i) ==
    IF i > Len(chars) THEN << >>
    ELSE IF i < Len(chars) /\ chars[i] = "%" /\ chars[i + 1] = "%"
    THEN <<"%">> \o ReplacePercents(chars, i + 2)
    ELSE <<chars[i]>> \o ReplacePercents(chars, i + 1)

\* Lines 256-260: a format_spec that is not empty.
Formatted(self, format_spec) ==
    IF RegexSub(self, format_spec, 1).type = "raise" THEN RegexSub(self, format_spec, 1)
    ELSE PyText(ReplacePercents(RegexSub(self, format_spec, 1).chars, 1))

_weekstr(self) ==
    IF self.weeks = 1 THEN <<"w", "e", "e", "k">> ELSE <<"w", "e", "e", "k", "s">>

_daystr(self) ==
    IF self.days = 1 THEN <<"d", "a", "y">> ELSE <<"d", "a", "y", "s">>

__str__(self) ==
    Formatted(self, <<"%", "w", " ">> \o _weekstr(self) \o <<",", " ", "%", "d", " ">>
                    \o _daystr(self)
                    \o <<",", " ", "%", "H", ":", "%", "M", ":", "%", "S", ".",
                         "%", "m", "S", "%", "u", "S">>)

__format__(self, format_spec) ==
    IF format_spec = << >> THEN __str__(self) ELSE Formatted(self, format_spec)

(***************************************************************************)
(* Parsing, lines 151-189.                                                 *)
(***************************************************************************)
\* An exception with its message.
RaiseOf(exc, message) == [type |-> "raise", exc |-> exc, message |-> message]

_parse_units ==
    <<<<<<"w">>,
        <<"w", "k">>,
        <<"w", "e", "e", "k">>,
        <<"w", "e", "e", "k", "s">>>>,
      <<<<"d">>,
        <<"d", "a", "y">>,
        <<"d", "a", "y", "s">>>>,
      <<<<"h">>,
        <<"h", "r">>,
        <<"h", "o", "u", "r">>,
        <<"h", "o", "u", "r", "s">>>>,
      <<<<"m">>,
        <<"m", "i", "n">>,
        <<"m", "i", "n", "s">>,
        <<"m", "i", "n", "u", "t", "e">>,
        <<"m", "i", "n", "u", "t", "e", "s">>>>,
      <<<<"s">>,
        <<"s", "e", "c">>,
        <<"s", "e", "c", "s">>,
        <<"s", "e", "c", "o", "n", "d">>,
        <<"s", "e", "c", "o", "n", "d", "s">>>>,
      <<<<"m", "s", "e", "c">>,
        <<"m", "s">>,
        <<"m", "i", "l", "l", "i", "s", "e", "c", "o", "n", "d">>,
        <<"m", "i", "l", "l", "i", "s", "e", "c", "o", "n", "d", "s">>>>,
      <<<<"u", "s", "e", "c">>,
        <<"u", "s">>,
        <<"µ", "s">>,
        <<"m", "i", "c", "r", "o", "s", "e", "c", "o", "n", "d">>,
        <<"m", "i", "c", "r", "o", "s", "e", "c", "o", "n", "d", "s">>>>>>

Digits == {DecimalChars[i] : i \in 1 .. 10}

Signs == {"-", "+"}

\* \s of line 159 among the characters of the model.
Spaces == {" "}

\* [0-9]*\.?[0-9]+ matches all of chars.
IsMantissa(chars) ==
    /\ chars # << >>
    /\ \A i \in 1 .. Len(chars) : chars[i] \in Digits \cup {"."}
    /\ \A i, j \in 1 .. Len(chars) : (chars[i] = "." /\ chars[j] = ".") => i = j
    /\ chars[Len(chars)] \in Digits

\* [-+]?[0-9]+ matches all of chars.
IsExponent(chars) ==
    /\ chars # << >>
    /\ \A i \in 2 .. Len(chars) : chars[i] \in Digits
    /\ chars[1] \in Digits \/ (chars[1] \in Signs /\ Len(chars) > 1)

\* Where the exponent letter of chars is: 0 when there is none.
ExponentAt(chars) ==
    IF \E i \in 1 .. Len(chars) : chars[i] \in {"e", "E"}
    THEN CHOOSE i \in 1 .. Len(chars) : chars[i] \in {"e", "E"}
    ELSE 0

Unsigned(chars) == IF chars # << >> /\ chars[1] \in Signs THEN Tail(chars) ELSE chars

\* The group value of line 159 matches all of chars:
\* [-+]?[0-9]*\.?[0-9]+(?:[eE][-+]?[0-9]+)?
IsValue(chars) ==
    IF ExponentAt(Unsigned(chars)) = 0 THEN IsMantissa(Unsigned(chars))
    ELSE /\ IsMantissa(SubSeq(Unsigned(chars), 1, ExponentAt(Unsigned(chars)) - 1))
         /\ IsExponent(SubSeq(Unsigned(chars), ExponentAt(Unsigned(chars)) + 1,
                              Len(Unsigned(chars))))

\* \s* from chars[i] on: the first place that holds no white space.
RECURSIVE SkipSpaces(_, _)
SkipSpaces(chars, i) ==
    IF i <= Len(chars) /\ chars[i] \in Spaces THEN SkipSpaces(chars, i + 1) ELSE i

IsPrefixAt(unit, chars, i) ==
    /\ i + Len(unit) - 1 <= Len(chars)
    /\ SubSeq(chars, i, i + Len(unit) - 1) = unit

\* Line 156: every alias.  The alternation of line 159 tries them longest
\* first, so that of the aliases that match at a place the longest is taken.
units == UNION {{_parse_units[k][a] : a \in 1 .. Len(_parse_units[k])} : k \in 1 .. 7}

UnitsAt(chars, i) == {unit \in units : IsPrefixAt(unit, chars, i)}

UnitAt(chars, i) ==
    CHOOSE unit \in UnitsAt(chars, i) : \A u \in UnitsAt(chars, i) : Len(u) <= Len(unit)

\* The ends e of a value chars[i..e] that white space and a unit follow.  No
\* character of a value is white space or the first of a unit, so that there
\* is at most one, whichever way the regex backtracks.
ValueEnds(chars, i) ==
    {e \in i .. Len(chars) :
        /\ IsValue(SubSeq(chars, i, e))
        /\ UnitsAt(chars, SkipSpaces(chars, e + 1)) # {}}

\* Line 160, re_parse.findall(string) from chars[i] on: the pairs of value
\* and unit.
RECURSIVE FindAll(_, _)
FindAll(chars, i) ==
    IF i > Len(chars) THEN << >>
    ELSE IF ValueEnds(chars, i) = {} THEN FindAll(chars, i + 1)
    ELSE LET e == CHOOSE e \in ValueEnds(chars, i) : TRUE
             unit == UnitAt(chars, SkipSpaces(chars, e + 1))
         IN  << [value |-> SubSeq(chars, i, e), unit |-> unit] >>
                 \o FindAll(chars, SkipSpaces(chars, e + 1) + Len(unit))

\* Lines 164-167: unit_attr_map[unit], or KeyError.
unit_attr_map(unit) ==
    IF \E k \in 1 .. 7 : \E a \in 1 .. Len(_parse_units[k]) : _parse_units[k][a] = unit
    THEN __ordered_attributes[CHOOSE k \in 1 .. 7 :
                                 \E a \in 1 .. Len(_parse_units[k]) :
                                     _parse_units[k][a] = unit]
    ELSE "KeyError"

\* A fault: a unit met again replaces the value of the first.
RECURSIVE ParsedValuesLast(_, _)
ParsedValuesLast(matched_items, parsed_values) ==
    IF matched_items = << >> THEN parsed_values
    ELSE ParsedValuesLast(Tail(matched_items),
                          [parsed_values EXCEPT ![unit_attr_map(Head(matched_items).unit)] =
                               PyText(Head(matched_items).value)])

\* Lines 171-181: the loop over matched_items.
RECURSIVE ParsedValues(_, _)
ParsedValues(matched_items, parsed_values) ==
    IF matched_items = << >> THEN parsed_values
    ELSE IF unit_attr_map(Head(matched_items).unit) = "KeyError"
    THEN RaiseOf("ValueError", "Cannot parse unit")
    ELSE IF parsed_values[unit_attr_map(Head(matched_items).unit)] = None
    THEN ParsedValues(Tail(matched_items),
                      [parsed_values EXCEPT ![unit_attr_map(Head(matched_items).unit)] =
                           PyText(Head(matched_items).value)])
    ELSE RaiseOf("ValueError", "Possible duplicate unit")

\* 10^n and 5^n
RECURSIVE PowerOf(_, _)
PowerOf(b, n) == IF n = 0 THEN 1 ELSE b * PowerOf(b, n - 1)

\* The number the digits are, in base 10.
RECURSIVE DigitsValue(_)
DigitsValue(chars) ==
    IF chars = << >> THEN 0
    ELSE 10 * DigitsValue(SubSeq(chars, 1, Len(chars) - 1))
         + (CHOOSE d \in 0 .. 9 : DecimalChars[d + 1] = chars[Len(chars)])

SignedValue(chars) ==
    IF chars # << >> /\ chars[1] = "-" THEN -DigitsValue(Tail(chars))
    ELSE DigitsValue(Unsigned(chars))

\* The digits of a mantissa without its point, and how many follow the point.
WithoutPoint(chars) == SelectSeq(chars, LAMBDA c : c # ".")

AfterPoint(chars) ==
    IF \E i \in 1 .. Len(chars) : chars[i] = "."
    THEN Len(chars) - (CHOOSE i \in 1 .. Len(chars) : chars[i] = ".")
    ELSE 0

\* n * 10^p as a Decimal.  n / 10^q is (n / 5^q) / 2^q: the values of the
\* model are those with 5^q a divisor of n.
DecimalScaled(n, p) ==
    IF p >= 0 THEN DOfInt(n * PowerOf(10, p), 0)
    ELSE DOfInt(n \div PowerOf(5, -p), -p)

\* Decimal(value) of lines 81-87 for the text of a matched value.
DecimalOf(chars) ==
    IF ExponentAt(chars) = 0
    THEN DecimalScaled(SignedValue(WithoutPoint(chars)), -AfterPoint(Unsigned(chars)))
    ELSE DecimalScaled(SignedValue(WithoutPoint(SubSeq(chars, 1, ExponentAt(chars) - 1))),
                       SignedValue(SubSeq(chars, ExponentAt(chars) + 1, Len(chars)))
                           - AfterPoint(SubSeq(chars, 1, ExponentAt(chars) - 1)))

\* Lines 183-185 and the constructor's Decimal(): None is 0.
ArgumentOf(value) == IF value = None THEN D0 ELSE DecimalOf(value.chars)

\* TimeDelta.parse(string)
parse(string) ==
    LET parsed_values ==
            ParsedValues(FindAll(string, 1),
                         [attr \in {__ordered_attributes[k] : k \in 1 .. 7} |-> None])
    IN  IF "type" \in DOMAIN parsed_values THEN parsed_values
        ELSE TD(TimeDelta(ArgumentOf(parsed_values.weeks), ArgumentOf(parsed_values.days),
                          ArgumentOf(parsed_values.hours), ArgumentOf(parsed_values.minutes),
                          ArgumentOf(parsed_values.seconds),
                          ArgumentOf(parsed_values.milliseconds),
                          ArgumentOf(parsed_values.microseconds)))

(***************************************************************************)
(* The state: the TimeDelta at hand (self), the operation last applied to  *)
(* it (op), its operand (other) and what it returned (result).             *)
(***************************************************************************)
VARIABLES
    self,     \* the TimeDelta constructed: the record of its eight attributes
    op,       \* the last call made: "start" before any
    other,    \* the argument of the last call that took one
    result    \* what the last operation on self returned or raised

vars == <<self, op, other, result>>

MaxWeeks == 1

Ints(S) == {DOfInt(i, 0) : i \in S}

\* The inputs of the constructor: whole, fractional, negative, overflowing.
WeeksIn == Ints(-MaxWeeks .. MaxWeeks)
DaysIn == Ints({0, 6})
HoursIn == Ints({0, 23})
MinutesIn == Ints({0, 59})
SecondsIn == Ints({0, 1, 59})
MillisecondsIn == Ints({0, 999})
MicrosecondsIn ==
    Ints({-1, 0, 3, 999, 1000}) \cup {DOfInt(-1, 1), DOfInt(1, 2), DOfInt(1999, 1)}

\* The native timedeltas converted: the ends of the documented ranges.
NativesIn ==
    {Native(d, s, us) : d \in {-MaxNativeDays, -1, 0, 1, MaxNativeDays},
                        s \in {0, 86399}, us \in {0, 999999}}

\* The TimeDeltas that are operated on.
SelfWeeks == Ints(0 .. MaxWeeks)
SelfDays == Ints({0, 3})
SelfSeconds == Ints({0, 1})
SelfMicroseconds == Ints({-5, -3, 0, 3, 5, 1999}) \cup {DOfInt(1999, 1)}
SelfNatives == {Native(0, 0, 1), Native(-1, 86399, 999999)}

\* 0.5, -2.0, 0.6112295 and 1 / 0.6112295
Floats ==
    {DOfInt(1, 1), DOfInt(-2, 0)}
    \cup UNION {{x, FloatDiv(DOfInt(1, 0), x)} :
                   x \in {Round53(ZOfInt(6112295), NatOfInt(10000000))}}

\* The operands: TimeDeltas, native timedeltas, ints, floats, a datetime and
\* a str.
Operands ==
    {TD(OfMicroseconds(x)) : x \in Ints({-2, 0, 2}) \cup {DOfZ(WEEK)}}
    \cup {Native(0, 0, 0), Native(0, 0, 2), Native(-1, 86399, 999998), Native(7, 0, 0)}
    \cup {PyInt(ZOfInt(i)) : i \in {-2, 0, 2, 3}}
    \cup {PyFloat(x) : x \in Floats}
    \cup {Datetime(ZOfInt(0)), PyStr}

\* TimeDelta()
Zero7 == TimeDelta(D0, D0, D0, D0, D0, D0, D0)

Init ==
    /\ self = Zero7
    /\ op = "start"
    /\ other = None
    /\ result = None

\* TimeDelta(weeks, days, hours, minutes, seconds, milliseconds, microseconds)
\* on inputs of every kind.
NewWide ==
    /\ op = "start"
    /\ \E w \in WeeksIn, d \in DaysIn, h \in HoursIn, m \in MinutesIn,
          s \in SecondsIn, ms \in MillisecondsIn, us \in MicrosecondsIn :
          self' = TimeDelta(w, d, h, m, s, ms, us)
    /\ op' = "__init__"
    /\ UNCHANGED <<other, result>>

\* TimeDelta(days=days, seconds=seconds, microseconds=microseconds) with the
\* triple of a native timedelta, which other keeps.
NewTriple ==
    /\ op = "start"
    /\ \E td \in NativesIn :
          /\ self' = TimeDelta(D0, DOfZ(ZOfInt(td.days)), D0, D0,
                               DOfZ(ZOfInt(td.seconds)), D0,
                               DOfZ(ZOfInt(td.microseconds)))
          /\ other' = td
    /\ op' = "__init__"
    /\ UNCHANGED result

\* The constructor, for the TimeDeltas that are operated on.
NewSelf ==
    /\ op = "start"
    /\ \E w \in SelfWeeks, d \in SelfDays, s \in SelfSeconds,
          us \in SelfMicroseconds :
          self' = TimeDelta(w, d, D0, D0, s, D0, us)
    /\ op' = "__init__"
    /\ UNCHANGED <<other, result>>

\* TimeDelta.from_timedelta(td)
FromNativesIn ==
    /\ op = "start"
    /\ \E td \in NativesIn :
          /\ self' = from_timedelta(td)
          /\ other' = td
    /\ op' = "from_timedelta"
    /\ UNCHANGED result

FromSelfNatives ==
    /\ op = "start"
    /\ \E td \in SelfNatives :
          /\ self' = from_timedelta(td)
          /\ other' = td
    /\ op' = "from_timedelta"
    /\ UNCHANGED result

Constructed == op \in {"__init__", "from_timedelta"}

\* self.as_timedelta()
AsTimedelta ==
    /\ Constructed
    /\ result' = as_timedelta(self)
    /\ op' = "as_timedelta"
    /\ UNCHANGED <<self, other>>

\* -self
Neg ==
    /\ Constructed
    /\ result' = __neg__(self)
    /\ op' = "__neg__"
    /\ UNCHANGED <<self, other>>

\* +self
Pos ==
    /\ Constructed
    /\ result' = __pos__(self)
    /\ op' = "__pos__"
    /\ UNCHANGED <<self, other>>

\* abs(self)
Abs ==
    /\ Constructed
    /\ result' = __abs__(self)
    /\ op' = "__abs__"
    /\ UNCHANGED <<self, other>>

\* bool(self)
Truth ==
    /\ Constructed
    /\ result' = __bool__(self)
    /\ op' = "__bool__"
    /\ UNCHANGED <<self, other>>

\* The right-hand side of a binary operation, evaluated before the method is
\* called.
Operand ==
    /\ Constructed
    /\ \E o \in Operands : other' = o
    /\ UNCHANGED <<self, op, result>>

Evaluated == Constructed /\ other # None

\* self < other
Lt ==
    /\ Evaluated
    /\ result' = __lt__(self, other)
    /\ op' = "__lt__"
    /\ UNCHANGED <<self, other>>

\* self <= other
Le ==
    /\ Evaluated
    /\ result' = __le__(self, other)
    /\ op' = "__le__"
    /\ UNCHANGED <<self, other>>

\* self == other
Eq ==
    /\ Evaluated
    /\ result' = __eq__(self, other)
    /\ op' = "__eq__"
    /\ UNCHANGED <<self, other>>

\* self != other
Ne ==
    /\ Evaluated
    /\ result' = __ne__(self, other)
    /\ op' = "__ne__"
    /\ UNCHANGED <<self, other>>

\* self > other
Gt ==
    /\ Evaluated
    /\ result' = __gt__(self, other)
    /\ op' = "__gt__"
    /\ UNCHANGED <<self, other>>

\* self >= other
Ge ==
    /\ Evaluated
    /\ result' = __ge__(self, other)
    /\ op' = "__ge__"
    /\ UNCHANGED <<self, other>>

\* self + other
Add ==
    /\ Evaluated
    /\ result' = __add__(self, other)
    /\ op' = "__add__"
    /\ UNCHANGED <<self, other>>

\* other + self, where other's own __add__ has declined
RAdd ==
    /\ Evaluated
    /\ result' = __radd__(self, other)
    /\ op' = "__radd__"
    /\ UNCHANGED <<self, other>>

\* self - other
Sub ==
    /\ Evaluated
    /\ result' = __sub__(self, other)
    /\ op' = "__sub__"
    /\ UNCHANGED <<self, other>>

\* other - self, where other's own __sub__ has declined
RSub ==
    /\ Evaluated
    /\ result' = __rsub__(self, other)
    /\ op' = "__rsub__"
    /\ UNCHANGED <<self, other>>

\* self * other
Mul ==
    /\ Evaluated
    /\ result' = __mul__(self, other)
    /\ op' = "__mul__"
    /\ UNCHANGED <<self, other>>

\* other * self
RMul ==
    /\ Evaluated
    /\ result' = __rmul__(self, other)
    /\ op' = "__rmul__"
    /\ UNCHANGED <<self, other>>

\* self / other
TrueDiv ==
    /\ Evaluated
    /\ result' = __truediv__(self, other)
    /\ op' = "__truediv__"
    /\ UNCHANGED <<self, other>>

\* self // other, as the method returns it
FloorDiv ==
    /\ Evaluated
    /\ result' = __floordiv__(self, other)
    /\ op' = "__floordiv__"
    /\ UNCHANGED <<self, other>>

\* self % other, as the method returns it
Mod ==
    /\ Evaluated
    /\ result' = __mod__(self, other)
    /\ op' = "__mod__"
    /\ UNCHANGED <<self, other>>

\* divmod(self, other)
DivMod ==
    /\ Evaluated
    /\ result' = __divmod__(self, other)
    /\ op' = "__divmod__"
    /\ UNCHANGED <<self, other>>

\* Every operation, on a few TimeDeltas.
Next ==
    \/ NewSelf \/ FromSelfNatives
    \/ AsTimedelta \/ Neg \/ Pos \/ Abs \/ Truth
    \/ Operand
    \/ Lt \/ Le \/ Eq \/ Ne \/ Gt \/ Ge
    \/ Add \/ RAdd \/ Sub \/ RSub
    \/ Mul \/ RMul \/ TrueDiv \/ FloorDiv \/ Mod \/ DivMod

Spec == Init /\ [][Next]_vars

\* The constructors and the conversions, on many inputs.
NextInit == NewWide \/ NewTriple \/ FromNativesIn \/ AsTimedelta

SpecInit == Init /\ [][NextInit]_vars

MaxTemplate == 4

\* The characters templates are written with: the percent sign, letters of
\* keys in both cases, a letter of no key and a space.
FormatAlphabet == {"%", "w", "H", "m", "M", "s", "S", "x", " "}

\* The twelve directives of lines 225-249.
Directives ==
    {<<"%", "w">>, <<"%", "d">>, <<"%", "h">>, <<"%", "H">>, <<"%", "m">>,
     <<"%", "M">>, <<"%", "s">>, <<"%", "S">>, <<"%", "m", "s">>,
     <<"%", "m", "S">>, <<"%", "u", "s">>, <<"%", "u", "S">>}

\* The templates of test_format.
TestTemplates ==
    {<<"%", "w", " ", "%", "d", " ", "%", "h", " ", "%", "m", " ", "%", "s", " ",
       "%", "m", "s", " ", "%", "u", "s">>,
     <<"%", "w", " ", "%", "d", " ", "%", "H", " ", "%", "M", " ", "%", "S", " ",
       "%", "m", "S", " ", "%", "u", "S">>,
     <<"%", "w", " ", "%", "d", " ", "%", "H", " ", "%", "M", " ", "%", "S", " ",
       "%", "m", "S", " ", "%", "u", "S", "%", "%">>,
     <<"%", "w", "r", "o", "n", "g", "k", "e", "y", " ", "%", "H">>}

\* Every str of at most n characters of the alphabet.
Strings(alphabet, n) == UNION {[1 .. k -> alphabet] : k \in 0 .. n}

\* The templates: the short ones, the directives and those of the tests.
Templates(n) == Strings(FormatAlphabet, n) \cup Directives \cup TestTemplates

\* The TimeDeltas formatted: td9 of the tests, one microsecond below zero,
\* one week and a day, and 12 hours 34 minutes.
ShownIn ==
    {<<1, 2, 3, 4, 5, 6, 7>>, <<0, 0, 0, 0, 0, 0, -1>>, <<1, 1, 0, 0, 0, 0, 0>>,
     <<0, 0, 12, 34, 0, 0, 0>>}

NewShown ==
    /\ op = "start"
    /\ \E a \in ShownIn :
          self' = TimeDelta(DOfInt(a[1], 0), DOfInt(a[2], 0), DOfInt(a[3], 0),
                            DOfInt(a[4], 0), DOfInt(a[5], 0), DOfInt(a[6], 0),
                            DOfInt(a[7], 0))
    /\ op' = "__init__"
    /\ UNCHANGED <<other, result>>

\* format(self, format_spec)
Format ==
    /\ Constructed
    /\ \E format_spec \in Templates(MaxTemplate) :
          /\ other' = PyText(format_spec)
          /\ result' = __format__(self, format_spec)
    /\ op' = "__format__"
    /\ UNCHANGED self

\* str(self)
ToStr ==
    /\ Constructed
    /\ result' = __str__(self)
    /\ other' = None
    /\ op' = "__str__"
    /\ UNCHANGED self

NextFormat == NewShown \/ Format \/ ToStr

SpecFormat == Init /\ [][NextFormat]_vars

MaxText == 4

\* The characters texts are written with: a digit, a space, letters of
\* units and a letter of none.
ParseAlphabet == {"5", " ", "m", "s", "x"}

Numbers == {<<"5">>, <<"-", "3">>, <<"+", "2">>, <<".", "5">>, <<"1", ".", "5">>, <<"5", "e", "1">>}

\* A number and each alias, with and without a space between; pairs of such.
Phrases ==
    {n \o sp \o unit : n \in Numbers, sp \in {<< >>, <<" ">>}, unit \in units}

Texts(n) ==
    Strings(ParseAlphabet, n)
        \cup Phrases
        \cup {<<"5">> \o u \o <<" ", "3", " ">> \o v : u, v \in units}
        \cup {<<"5", " ">> \o u \o <<"o", "n", "t", "h", "s">> : u \in units}

\* TimeDelta.parse(string)
Parse ==
    /\ op = "start"
    /\ \E string \in Texts(MaxText) :
          /\ other' = PyText(string)
          /\ result' = parse(string)
    /\ op' = "parse"
    /\ UNCHANGED self

NextParse == Parse

SpecParse == Init /\ [][NextParse]_vars

\* The arguments of a call of the constructor.
Arguments(w, d, h, m, s, ms, us) ==
    [type |-> "arguments", weeks |-> w, days |-> d, hours |-> h, minutes |-> m,
     seconds |-> s, milliseconds |-> ms, microseconds |-> us]

\* TimeDelta(weeks, days, hours, minutes, seconds, milliseconds, microseconds),
\* the arguments kept in other.
NewKept ==
    /\ op = "start"
    /\ \E w \in WeeksIn, d \in DaysIn, h \in HoursIn, m \in MinutesIn,
          s \in SecondsIn, ms \in MillisecondsIn, us \in MicrosecondsIn :
          /\ self' = TimeDelta(w, d, h, m, s, ms, us)
          /\ other' = Arguments(w, d, h, m, s, ms, us)
    /\ op' = "__init__"
    /\ UNCHANGED result

\* The constructor alone, with what it was given.
NextNew == NewKept

SpecNew == Init /\ [][NextNew]_vars

(***************************************************************************)
(* What the properties are stated with.                                    *)
(***************************************************************************)
Components == {"days", "hours", "minutes", "seconds", "milliseconds", "microseconds"}

Limit(c) ==
    CASE c = "days" -> 7
      [] c = "hours" -> 24
      [] c \in {"minutes", "seconds"} -> 60
      [] OTHER -> 1000

InRange(td) == \A c \in Components : 0 <= td[c] /\ td[c] < Limit(c)

SignPlacement(td) ==
    IF td.total_microseconds.neg
    THEN td.weeks <= -1 /\ \A c \in Components : td[c] >= 0
    ELSE /\ td.weeks >= 0
         /\ ZIsZero(td.total_microseconds) =>
                td.weeks = 0 /\ \A c \in Components : td[c] = 0

\* weeks*WEEK + days*DAY + ... + microseconds, of the stored components
WeightedSum(td) ==
    ZAdd(ZAdd(ZAdd(ZMul(ZOfInt(td.weeks), WEEK), ZMul(ZOfInt(td.days), DAY)),
              ZAdd(ZMul(ZOfInt(td.hours), HOUR), ZMul(ZOfInt(td.minutes), MINUTE))),
         ZAdd(ZAdd(ZMul(ZOfInt(td.seconds), SECOND),
                   ZMul(ZOfInt(td.milliseconds), MILLISECOND)),
              ZOfInt(td.microseconds)))

SumIsTotal(td) == ZCmp(WeightedSum(td), td.total_microseconds) = 0

IsCanonical(td) == InRange(td) /\ SignPlacement(td) /\ SumIsTotal(td)

\* The TimeDeltas an operation returned.
TimeDeltasOf(v) ==
    IF v.type = "TimeDelta" THEN {v.td}
    ELSE IF v.type = "tuple" /\ v.snd.type = "TimeDelta" THEN {v.snd.td}
    ELSE {}

\* The microsecond total of an operand that is a TimeDelta or a native
\* timedelta: days*DAY + seconds*SECOND + microseconds for the latter.
MicrosecondsOf(b) ==
    IF b.type = "TimeDelta" THEN b.td.total_microseconds
    ELSE ZAdd(ZAdd(ZMul(ZOfInt(b.days), DAY), ZMul(ZOfInt(b.seconds), SECOND)),
              ZOfInt(b.microseconds))

IsDuration(b) == b.type \in {"TimeDelta", "timedelta"}

Comparisons == {"__lt__", "__le__", "__eq__", "__ne__", "__ge__", "__gt__"}

\* The comparison name of two integers whose difference is d.
Compared(name, d) ==
    CASE name = "__lt__" -> d.neg
      [] name = "__le__" -> d.neg \/ ZIsZero(d)
      [] name = "__eq__" -> ZIsZero(d)
      [] name = "__ne__" -> ~ZIsZero(d)
      [] name = "__ge__" -> ~d.neg
      [] OTHER -> ~d.neg /\ ~ZIsZero(d)

True == PyBool(TRUE)

\* The exact value p / q of a scalar: an int over 1, a float n / 2^k.
ScalarNum(n) == IF n.type = "int" THEN n.v ELSE n.v.n
ScalarDen(n) == IF n.type = "int" THEN <<1>> ELSE NatPow2(n.v.k)

\* total * n and total / n in exact arithmetic, rounded half-even.
ExactProduct(total, n) ==
    RatToIntegral(ZMul(total, ScalarNum(n)), ScalarDen(n), "ROUND_HALF_EVEN")

ExactQuotient(total, n) ==
    RatToIntegral(ZMake(total.neg # ScalarNum(n).neg,
                        NatMul(total.mag, ScalarDen(n))),
                  ScalarNum(n).mag, "ROUND_HALF_EVEN")

\* total / n as Python computes it in binary64: the quotient of two ints
\* rounded once, an int converted to float before it is divided by a float.
Binary64Quotient(total, n) ==
    IF n.type = "int" THEN Round53(ZMake(total.neg # n.v.neg, total.mag), n.v.mag)
    ELSE FloatDiv(Round53(total, <<1>>), n.v)

(***************************************************************************)
(* The properties.                                                         *)
(***************************************************************************)

\* C1: every TimeDelta the constructor makes, whatever its seven inputs, has
\* 0 <= days < 7, 0 <= hours < 24, 0 <= minutes < 60, 0 <= seconds < 60,
\* 0 <= milliseconds < 1000 and 0 <= microseconds < 1000.
C1_ComponentsInRange == op = "__init__" => InRange(self)

\* C2: a constructed TimeDelta with a negative total has weeks <= -1 and
\* every other component >= 0; with a total >= 0 it has weeks >= 0, and with
\* a total of 0 all components are zero.
C2_SignInWeeks == op = "__init__" => SignPlacement(self)

\* C3: total_microseconds of every TimeDelta, constructed, converted or
\* returned by an operation, is the weighted sum of its seven components.
C3_TotalIsWeightedSum ==
    \A td \in {self} \cup TimeDeltasOf(result) : SumIsTotal(td)

\* A TimeDelta returned by an operation whose sum is not the sum of an
\* ordinary decomposition: microseconds has taken the carry.
C3_Witness ==
    /\ op = "__mul__"
    /\ result.type = "TimeDelta"
    /\ result.td.microseconds = 1000
    /\ SumIsTotal(result.td)

\* C4: the components are a function of the total: TimeDelta(microseconds=
\* d.total_microseconds) has the components of d, for d constructed or
\* returned by an operation; so TimeDeltas that compare equal have the same
\* components.
C4_ComponentsFromTotal ==
    /\ \A td \in {self} \cup TimeDeltasOf(result) :
           OfMicroseconds(DOfZ(td.total_microseconds)) = td
    /\ (op = "__eq__" /\ other.type = "TimeDelta" /\ result = True) =>
           self = other.td

\* C5: a comparison with a TimeDelta or a native timedelta is the comparison
\* of the two microsecond totals; with anything else it is NotImplemented.
C5_Comparisons ==
    op \in Comparisons =>
        IF IsDuration(other)
        THEN result = PyBool(Compared(op, ZSub(self.total_microseconds,
                                               MicrosecondsOf(other))))
        ELSE result = NotImplemented

\* self <= other holds of equal totals, self a TimeDelta of one week and
\* other the native timedelta of seven days.
C5_Witness ==
    /\ op = "__le__"
    /\ other = Native(7, 0, 0)
    /\ self.weeks = 1 /\ self.total_microseconds = WEEK
    /\ result = True

\* C6: for a native timedelta n, from_timedelta(n).as_timedelta() is n,
\* from_timedelta(n) == n and TimeDelta(days=n.days, seconds=n.seconds,
\* microseconds=n.microseconds) == n.
C6_NativeRoundTrip ==
    /\ op = "from_timedelta" =>
           as_timedelta(self) = other /\ __eq__(self, other) = True
    /\ (op = "__init__" /\ other # None) => __eq__(self, other) = True
    /\ (op = "as_timedelta" /\ other # None) => result = other

\* The largest native timedelta has come back from the round trip.
C6_Witness ==
    /\ op = "as_timedelta"
    /\ other = Native(MaxNativeDays, 86399, 999999)
    /\ result = other
    /\ self.microseconds = 999

\* C7: a + b and a - b have the totals a.total + b.total and a.total -
\* b.total, b a TimeDelta or a native timedelta, so a + b - b == a; b + a
\* is a + b, and a.__rsub__(b) is b - a.
C7_AddSubtract ==
    IsDuration(other) =>
        /\ op = "__add__" =>
               /\ result.type = "TimeDelta"
               /\ result.td.total_microseconds =
                      ZAdd(self.total_microseconds, MicrosecondsOf(other))
               /\ __eq__(__sub__(result.td, other).td, TD(self)) = True
        /\ op = "__sub__" =>
               /\ result.type = "TimeDelta"
               /\ result.td.total_microseconds =
                      ZSub(self.total_microseconds, MicrosecondsOf(other))
        /\ (op = "__radd__" /\ other.type = "timedelta") =>
               /\ result.type = "TimeDelta"
               /\ __eq__(result.td, __add__(self, other)) = True
        /\ op = "__rsub__" =>
               /\ result.type = "TimeDelta"
               /\ result.td.total_microseconds =
                      ZSub(MicrosecondsOf(other), self.total_microseconds)

\* A native timedelta minus a TimeDelta, negative: -2us - 5us.
C7_Witness ==
    /\ op = "__rsub__"
    /\ other = Native(-1, 86399, 999998)
    /\ self.total_microseconds = ZOfInt(5)
    /\ result.type = "TimeDelta"
    /\ result.td.total_microseconds = ZOfInt(-7)
    /\ result.td.weeks = -1

\* C8: a * n and n * a are the same canonical TimeDelta, whose total is the
\* exact product a.total * n rounded to the nearest integer, ties to even.
C8_MultiplyExact ==
    (op \in {"__mul__", "__rmul__"} /\ IsNumber(other)) =>
        /\ __mul__(self, other) = __rmul__(self, other)
        /\ result.type = "TimeDelta"
        /\ result.td.total_microseconds =
               ExactProduct(self.total_microseconds, other)
        /\ IsCanonical(result.td)

IsFloorOf(a, b, q) ==
    IF b.neg
    THEN ZCmp(ZMul(q, b), a) >= 0 /\ ZCmp(ZMul(ZAdd(q, ZOfInt(1)), b), a) < 0
    ELSE ZCmp(ZMul(q, b), a) <= 0 /\ ZCmp(ZMul(ZAdd(q, ZOfInt(1)), b), a) > 0

\* r is the remainder that goes with q: zero or of the sign of b, less than b.
IsRemainderOf(a, b, q, r) ==
    /\ ZCmp(ZAdd(ZMul(q, b), r), a) = 0
    /\ ZIsZero(r) \/ r.neg = b.neg
    /\ NatCmp(r.mag, b.mag) < 0

\* C10: for TimeDeltas a and b, b not zero, divmod(a, b) is (a // b, a % b);
\* q = a // b is the floor of a.total / b.total; r = a % b is a canonical
\* TimeDelta with a.total = q * b.total + r.total, r zero or of the sign of
\* b, and |r| < |b|.
C10_DivMod ==
    (other.type = "TimeDelta" /\ ~ZIsZero(other.td.total_microseconds)) =>
        /\ op = "__floordiv__" =>
               /\ result.type = "int"
               /\ IsFloorOf(self.total_microseconds,
                            other.td.total_microseconds, result.v)
        /\ op = "__mod__" =>
               /\ result.type = "TimeDelta"
               /\ IsCanonical(result.td)
               /\ IsRemainderOf(self.total_microseconds,
                                other.td.total_microseconds,
                                __floordiv__(self, other).v,
                                result.td.total_microseconds)
        /\ op = "__divmod__" =>
               result = PyTuple(__floordiv__(self, other), __mod__(self, other))

\* divmod(TimeDelta(weeks=1, days=3), TimeDelta(weeks=1)) is
\* (1, TimeDelta(days=3)).
C10_Witness ==
    /\ op = "__divmod__"
    /\ self.weeks = 1 /\ self.days = 3 /\ self.seconds = 0 /\ self.microseconds = 0
    /\ other.type = "TimeDelta" /\ other.td.total_microseconds = WEEK
    /\ result.type = "tuple"
    /\ result.fst = PyInt(ZOfInt(1))
    /\ result.snd.type = "TimeDelta"
    /\ result.snd.td.days = 3 /\ result.snd.td.weeks = 0

\* C11: (-a).total is -a.total and -(-a) == a; abs(a).total is |a.total|,
\* abs(a) being -a for a negative total and an equal copy otherwise, and
\* abs(-a) == abs(a); the results are canonical, a negative one with the
\* sign in weeks only.
C11_NegateAbs ==
    /\ op = "__neg__" =>
           /\ result.type = "TimeDelta"
           /\ result.td.total_microseconds = ZNeg(self.total_microseconds)
           /\ __eq__(__neg__(result.td).td, TD(self)) = True
           /\ __eq__(__abs__(result.td).td, __abs__(self)) = True
           /\ IsCanonical(result.td)
    /\ op = "__abs__" =>
           /\ result.type = "TimeDelta"
           /\ result.td.total_microseconds = ZAbs(self.total_microseconds)
           /\ IF self.total_microseconds.neg
              THEN result = __neg__(self)
              ELSE __eq__(result.td, TD(self)) = True
           /\ IsCanonical(result.td)
    /\ op = "__pos__" =>
           /\ result.type = "TimeDelta"
           /\ __eq__(result.td, TD(self)) = True
           /\ IsCanonical(result.td)

\* -(1 second) has weeks=-1, days=6, hours=23, minutes=59, seconds=59.
C11_Witness ==
    /\ op = "__neg__"
    /\ self.total_microseconds = SECOND
    /\ result.type = "TimeDelta"
    /\ result.td.weeks = -1 /\ result.td.days = 6 /\ result.td.hours = 23
    /\ result.td.minutes = 59 /\ result.td.seconds = 59
    /\ result.td.milliseconds = 0 /\ result.td.microseconds = 0

\* The exact total of the arguments a: the sum of lines 81-87 before it is
\* rounded.
TotalGiven(a) ==
    TotalOf(a.weeks, a.days, a.hours, a.minutes, a.seconds, a.milliseconds,
            a.microseconds)

\* -1, 0 or 1 as x is below, at or above y.
DCmp(x, y) ==
    IF ZIsZero(DSub(x, y).n) THEN 0 ELSE IF DSub(x, y).n.neg THEN -1 ELSE 1

\* days*DAY + ... + microseconds: what the components below the weeks hold.
BelowWeeks(td) == ZSub(WeightedSum(td), ZMul(ZOfInt(td.weeks), WEEK))

\* c = ceil(x / WEEK) for x > 0: (c - 1) * WEEK < x <= c * WEEK
IsCeilOfWeeks(c, x) ==
    /\ DCmp(DOfZ(ZMul(c, WEEK)), x) >= 0
    /\ DCmp(DOfZ(ZMul(ZSub(c, ZOfInt(1)), WEEK)), x) < 0

NegativeBranch == op = "__init__" /\ other.type = "arguments" /\ DIsNeg(TotalGiven(other))

C17_MixedDivisionAsStated ==
    /\ other.type = "timedelta" =>
           /\ op = "__mod__" => result.type = "TimeDelta"
           /\ op = "__floordiv__" => result = NotImplemented
           /\ op = "__divmod__" => result = Raise("TypeError")
    /\ IsNumber(other) =>
           /\ op = "__floordiv__" => result.type = "TimeDelta"
           /\ op = "__mod__" => result = NotImplemented
           /\ op = "__divmod__" => result = Raise("TypeError")

\* C17, amended: the same for b and n that are not zero; a % b for a zero
\* b, a // 0 and divmod(a, 0) raise ZeroDivisionError.
C17_MixedDivision ==
    /\ other.type = "timedelta" =>
           /\ op = "__mod__" =>
                  IF ZIsZero(MicrosecondsOf(other))
                  THEN result = Raise("ZeroDivisionError")
                  ELSE /\ result.type = "TimeDelta"
                       /\ IsRemainderOf(self.total_microseconds,
                                        MicrosecondsOf(other),
                                        ZFloorDiv(self.total_microseconds,
                                                  MicrosecondsOf(other)),
                                        result.td.total_microseconds)
           /\ op = "__floordiv__" => result = NotImplemented
           /\ op = "__divmod__" => result = Raise("TypeError")
    /\ IsNumber(other) =>
           /\ op = "__floordiv__" =>
                  IF IsZeroNumber(other)
                  THEN result = Raise("ZeroDivisionError")
                  ELSE result.type = "TimeDelta"
           /\ op = "__mod__" => result = NotImplemented
           /\ op = "__divmod__" =>
                  IF IsZeroNumber(other)
                  THEN result = Raise("ZeroDivisionError")
                  ELSE result = Raise("TypeError")

\* divmod of a TimeDelta that is not zero and the native timedelta of seven
\* days has ended in TypeError.
C17_Witness ==
    /\ op = "__divmod__"
    /\ other = Native(7, 0, 0)
    /\ ~ZIsZero(self.total_microseconds)
    /\ result = Raise("TypeError")

\* The twelve codes of the table of lines 225-249.
TwelveCodes == {SubSeq(d, 2, Len(d)) : d \in Directives}

\* A template read from the left: %% is an escaped percent sign, a percent
\* sign before a word character starts a directive whose key runs to the
\* last word character, anything else is literal text.
IsEscapeAt(chars, i) == i < Len(chars) /\ chars[i] = "%" /\ chars[i + 1] = "%"

IsDirectiveAt(chars, i) == i < Len(chars) /\ chars[i] = "%" /\ IsWord(chars[i + 1])

\* The keys of the directives of chars from chars[i] on.
RECURSIVE KeysFrom(_, _)
KeysFrom(chars, i) ==
    IF i > Len(chars) THEN {}
    ELSE IF IsEscapeAt(chars, i) THEN KeysFrom(chars, i + 2)
    ELSE IF IsDirectiveAt(chars, i)
    THEN {SubSeq(chars, i + 1, KeyEnd(chars, i + 1))}
             \cup KeysFrom(chars, KeyEnd(chars, i + 1) + 1)
    ELSE KeysFrom(chars, i + 1)

\* C12: applying a template raises ValueError for every directive whose key
\* is not one of the twelve codes; no key outside that set is substituted.
C12_UnknownKeyRaises ==
    (op = "__format__" /\ KeysFrom(other.chars, 1) \ TwelveCodes # {})
        => result = Raise("ValueError")

\* The component a code stands for and the width it is padded to.
ComponentOf(key) ==
    CASE key \in {<<"w">>} -> "weeks"
      [] key \in {<<"d">>} -> "days"
      [] key \in {<<"h">>, <<"H">>} -> "hours"
      [] key \in {<<"m">>, <<"M">>} -> "minutes"
      [] key \in {<<"s">>, <<"S">>} -> "seconds"
      [] key \in {<<"m", "s">>, <<"m", "S">>} -> "milliseconds"
      [] key \in {<<"u", "s">>, <<"u", "S">>} -> "microseconds"

WidthOf(key) ==
    IF key \in {<<"H">>, <<"M">>, <<"S">>} THEN 2
    ELSE IF key \in {<<"m", "S">>, <<"u", "S">>} THEN 3
    ELSE 1

\* Every percent sign of chars from chars[i] on is part of %% or starts a
\* directive of the twelve.
RECURSIVE IsBuiltFrom(_, _)
IsBuiltFrom(chars, i) ==
    IF i > Len(chars) THEN TRUE
    ELSE IF IsEscapeAt(chars, i) THEN IsBuiltFrom(chars, i + 2)
    ELSE IF IsDirectiveAt(chars, i)
    THEN /\ SubSeq(chars, i + 1, KeyEnd(chars, i + 1)) \in TwelveCodes
         /\ IsBuiltFrom(chars, KeyEnd(chars, i + 1) + 1)
    ELSE chars[i] # "%" /\ IsBuiltFrom(chars, i + 1)

\* What the template is to become: each directive the value of its
\* component, each %% one percent sign, the rest as it is.
RECURSIVE Rendered(_, _, _)
Rendered(td, chars, i) ==
    IF i > Len(chars) THEN << >>
    ELSE IF IsEscapeAt(chars, i) THEN <<"%">> \o Rendered(td, chars, i + 2)
    ELSE IF IsDirectiveAt(chars, i)
    THEN LET key == SubSeq(chars, i + 1, KeyEnd(chars, i + 1))
         IN  ZeroPadded(td[ComponentOf(key)], WidthOf(key))
                 \o Rendered(td, chars, KeyEnd(chars, i + 1) + 1)
    ELSE <<chars[i]>> \o Rendered(td, chars, i + 1)

\* C13: for a template built from the twelve directives, literal text and
\* %%, each directive is replaced by the decimal value of its component,
\* zero-padded to 2 digits for H, M, S and 3 for mS, uS, each %% becomes a
\* single % and all other text is copied unchanged.
C13_TemplateRendered ==
    (op = "__format__" /\ other.chars # << >> /\ IsBuiltFrom(other.chars, 1))
        => result = PyText(Rendered(self, other.chars, 1))

\* The component the aliases of which hold the unit: 1 for weeks .. 7 for
\* microseconds.
ComponentOfUnit(unit) ==
    CHOOSE k \in 1 .. 7 : \E a \in 1 .. Len(_parse_units[k]) : _parse_units[k][a] = unit

\* The value matched for component k, 0 when none is.
MatchedValue(matched_items, k) ==
    IF \E i \in 1 .. Len(matched_items) : ComponentOfUnit(matched_items[i].unit) = k
    THEN DecimalOf(matched_items[CHOOSE i \in 1 .. Len(matched_items) :
                                     ComponentOfUnit(matched_items[i].unit) = k].value)
    ELSE D0

HasDuplicate(matched_items) ==
    \E i, j \in 1 .. Len(matched_items) :
        /\ i < j
        /\ ComponentOfUnit(matched_items[i].unit) = ComponentOfUnit(matched_items[j].unit)

\* C14: parse raises the duplicate-unit ValueError whenever two matched
\* pairs of number and unit map to the same component, by the same alias or
\* by different ones; when every matched component occurs once the result
\* equals the constructor applied to the matched values, the components
\* without a match 0.
C14_ParseDuplicates ==
    op = "parse" =>
        IF HasDuplicate(FindAll(other.chars, 1))
        THEN result = RaiseOf("ValueError", "Possible duplicate unit")
        ELSE result = TD(TimeDelta(MatchedValue(FindAll(other.chars, 1), 1),
                                   MatchedValue(FindAll(other.chars, 1), 2),
                                   MatchedValue(FindAll(other.chars, 1), 3),
                                   MatchedValue(FindAll(other.chars, 1), 4),
                                   MatchedValue(FindAll(other.chars, 1), 5),
                                   MatchedValue(FindAll(other.chars, 1), 6),
                                   MatchedValue(FindAll(other.chars, 1), 7)))

\* '5m 3 min', minutes by two aliases, has raised the duplicate-unit error.
C14_Witness ==
    /\ op = "parse"
    /\ other = PyText(<<"5", "m", " ", "3", " ", "m", "i", "n">>)
    /\ Len(FindAll(other.chars, 1)) = 2
    /\ result = RaiseOf("ValueError", "Possible duplicate unit")

\* The unit token at chars[i]: the letters from there on.
RECURSIVE TokenEnd(_, _)
TokenEnd(chars, i) ==
    IF i <= Len(chars) /\ chars[i] \notin Digits \cup Signs \cup Spaces \cup {"."}
    THEN TokenEnd(chars, i + 1)
    ELSE i - 1

\* chars[i..e] is a number that no longer number of chars contains.
IsNumberAt(chars, i, e) ==
    /\ IsValue(SubSeq(chars, i, e))
    /\ \A a \in 1 .. i, b \in e .. Len(chars) :
           IsValue(SubSeq(chars, a, b)) => (a = i /\ b = e)

\* A number of chars is followed by a unit token that no alias list holds.
HasUnknownUnit(chars) ==
    \E i \in 1 .. Len(chars), e \in 1 .. Len(chars) :
        /\ i <= e
        /\ IsNumberAt(chars, i, e)
        /\ TokenEnd(chars, SkipSpaces(chars, e + 1)) >= SkipSpaces(chars, e + 1)
        /\ SubSeq(chars, SkipSpaces(chars, e + 1),
                  TokenEnd(chars, SkipSpaces(chars, e + 1))) \notin units

\* C15: parse raises the unrecognized-unit error whenever a number is
\* followed by a unit token that is in no alias list; such a token never
\* yields a TimeDelta.
C15_UnknownUnitRaises ==
    (op = "parse" /\ HasUnknownUnit(other.chars))
        => result = RaiseOf("ValueError", "Cannot parse unit")

====
